---- MODULE Spec2Model ----
(***************************************************************************)
(* SPNEGO/Kerberos HTTP authentication gate of service/http.go:            *)
(* SPNEGOKRB5Authenticate, validateAPREQ, rejectSPNEGO, and the replay     *)
(* cache validateAPREQ calls (GetReplayCache / IsReplay).                  *)
(*                                                                         *)
(* Time is counted in microseconds.  Every request runs in its own         *)
(* goroutine; the wall clock and the replay cache are shared.              *)
(***************************************************************************)
EXTENDS Integers, Sequences, FiniteSets, TLC

VARIABLES
    now,      \* the wall clock, time.Now().UTC(), in microseconds
    cache,    \* the process-wide replay cache: a set of [fp, at] entries
    logger,   \* l != nil, fixed when the handler is built
    pc,       \* pc[r]: where request r's goroutine stands
    req,      \* req[r]: the request r carries (header and token)
    tread,    \* tread[r]: t, the value of time.Now() read at line 106
    chk,      \* chk[r]: whether and when r called IsReplay, and the answer
    out       \* out[r]: what the gate did to r's ResponseWriter, handler and log

vars == <<now, cache, logger, pc, req, tread, chk, out>>

-----------------------------------------------------------------------------
(* Bounds of the model *)

\* number of requests served
MaxReq == 2
\* the clock runs over MaxWindows windows of length d
MaxWindows == 2

-----------------------------------------------------------------------------
(* Program constants *)

Microsecond == 1
Second == 1000000 * Microsecond
Minute == 60 * Second

SPNEGO_NegTokenResp_Krb_Accept_Completed == "Negotiate oRQwEqADCgEAoQsGCSqGSIb3EgECAg=="
SPNEGO_NegTokenResp_Reject == "Negotiate oQcwBaADCgEC"

\* line 108: d := time.Duration(5) * time.Minute
d == 5 * Minute

MechTypeOID_Krb5 == "1.2.840.113554.1.2.2"
MechTypeOID_NTLM == "1.3.6.1.4.1.311.2.2.10"

Unauthorised == "Unauthorised.\n"

-----------------------------------------------------------------------------
(* The data a request carries *)

\* types.PrincipalName: a name type and the name's components
Principal(type, parts) == [NameType |-> type, NameString |-> parts]

alice == Principal(1, <<"alice">>)
bob == Principal(1, <<"bob">>)
httpHost == Principal(2, <<"HTTP", "host.example.com">>)

\* PrincipalName.Equal, called at line 93
PrincipalEqual(n1, n2) == n1.NameType = n2.NameType /\ n1.NameString = n2.NameString

RECURSIVE Join(_, _)
\* strings.Join
Join(parts, sep) ==
    IF Len(parts) = 0 THEN ""
    ELSE IF Len(parts) = 1 THEN parts[1]
    ELSE parts[1] \o sep \o Join(Tail(parts), sep)

\* PrincipalName.GetPrincipalNameString, called at line 79
GetPrincipalNameString(n) == Join(n.NameString, "/")

\* types.Authenticator, the fields the gate reads
Authenticator(cname, crealm, ctime, cusec) ==
    [CName |-> cname, CRealm |-> crealm, CTime |-> ctime, Cusec |-> cusec]

\* messages.APReq with its decrypted ticket, the fields the gate reads
APReqOf(sname, realm, cname, start, end, flags) ==
    [Ticket |-> [SName |-> sname, Realm |-> realm,
                 DecryptedEncPart |-> [CName |-> cname, StartTime |-> start,
                                       EndTime |-> end, Flags |-> flags]]]

\* types.IsFlagSet, called at line 122
IsFlagSet(flags, flag) == flag \in flags

\* The first of the external decode and decrypt steps of lines 36-76 that fails
\* on a credential, "ok" when none does.
Stages == {"b64", "negtoken", "notinit", "mechtoken", "notapreq",
           "tktdecrypt", "authdecrypt", "authunmarshal", "ok"}

\* What the external collaborators make of the credential of a request
Token(stage, mechs, a, apreq) ==
    [stage |-> stage, MechTypes |-> mechs, a |-> a, APReq |-> apreq]

\* An HTTP request: the Authorization header as a sequence of pieces, " " the
\* separator byte and "TOKEN" the base64 text of the token
Request(hdr, tok) == [Authorization |-> hdr, token |-> tok]

-----------------------------------------------------------------------------
(* The ResponseWriter, as net/http behaves: the header map is sent, as it is *)
(* then, with the status line; a Write before any WriteHeader sends 200.     *)

NewResponse == [hdr |-> "", status |-> 0, sent |-> "", body |-> ""]

\* w.Header().Set("WWW-Authenticate", v)
SetHeader(w, v) == [w EXCEPT !.hdr = v]

\* w.WriteHeader(code)
WriteHeader(w, code) ==
    IF w.status = 0 THEN [w EXCEPT !.status = code, !.sent = w.hdr] ELSE w

\* w.Write(b)
Write(w, b) ==
    LET w1 == WriteHeader(w, 200) IN [w1 EXCEPT !.body = w1.body \o b]

\* What the client receives: status line, WWW-Authenticate header, body
Visible(w) == [status |-> w.status, header |-> w.sent, body |-> w.body]

\* The downstream handler f has not been called
NotCalled ==
    [called |-> FALSE, hdr |-> "", cname |-> "", crealm |-> "", authenticated |-> FALSE]

\* What the gate has done for one request: w, the ResponseWriter; f, the call of
\* the downstream handler; log, the lines printed to l; path, the branch of
\* the gate that ended the request
NoOutcome == [w |-> NewResponse, f |-> NotCalled, log |-> <<>>, path |-> ""]

\* lines 31-33: the challenge
Challenge(o) ==
    [o EXCEPT !.w = Write(WriteHeader(SetHeader(o.w, "Negotiate"), 401), Unauthorised),
              !.path = "MissingCredential"]

\* the status written before the header is set
rejectSPNEGO_HeaderLate(o, l, logMsg) ==
    [o EXCEPT !.log = IF l THEN Append(o.log, logMsg) ELSE o.log,
              !.w = Write(SetHeader(WriteHeader(o.w, 401), SPNEGO_NegTokenResp_Reject),
                          Unauthorised),
              !.path = logMsg]

\* nothing written when there is no logger
rejectSPNEGO_NilReturns(o, l, logMsg) ==
    IF l
    THEN [o EXCEPT !.log = Append(o.log, logMsg),
                   !.w = Write(WriteHeader(SetHeader(o.w, SPNEGO_NegTokenResp_Reject), 401),
                               Unauthorised),
                   !.path = logMsg]
    ELSE [o EXCEPT !.path = logMsg]

\* lines 135-142: rejectSPNEGO(w, l, logMsg)
rejectSPNEGO(o, l, logMsg) ==
    [o EXCEPT !.log = IF l THEN Append(o.log, logMsg) ELSE o.log,
              !.w = Write(WriteHeader(SetHeader(o.w, SPNEGO_NegTokenResp_Reject), 401),
                          Unauthorised),
              !.path = logMsg]

\* f called before the header is set
Accept_HeaderLate(o, a) ==
    [o EXCEPT !.w = SetHeader(o.w, SPNEGO_NegTokenResp_Krb_Accept_Completed),
              !.f = [called |-> TRUE, hdr |-> o.w.hdr,
                     cname |-> GetPrincipalNameString(a.CName),
                     crealm |-> a.CRealm, authenticated |-> TRUE],
              !.path = "Accepted"]

\* lines 78-83: the context values, the header, then the call of f
Accept(o, a) ==
    LET w1 == SetHeader(o.w, SPNEGO_NegTokenResp_Krb_Accept_Completed)
    IN  [o EXCEPT !.w = w1,
                  !.f = [called |-> TRUE, hdr |-> w1.hdr,
                         cname |-> GetPrincipalNameString(a.CName),
                         crealm |-> a.CRealm, authenticated |-> TRUE],
                  !.path = "Accepted"]

\* line 47 with an empty MechTypes: the index is out of range, the goroutine
\* panics, net/http recovers it and closes the connection with nothing written
Panic(o) == [o EXCEPT !.path = "Panic"]

-----------------------------------------------------------------------------
(* The replay cache behind GetReplayCache(d) and rc.IsReplay(d, sname, a) *)

\* The key of an authenticator in the cache
Fingerprint(sname, a) ==
    [cname |-> a.CName, crealm |-> a.CRealm, sname |-> sname,
     ct |-> a.CTime + a.Cusec * Microsecond]

\* nothing ever evicted
ClearOldEntries_KeepAll(c, window, t) == c

\* The entries that stay at time t: those not older than t - window
ClearOldEntries(c, window, t) == {e \in c : ~(e.at < t - window)}

\* Whether c holds an entry of fingerprint fp
Present(c, fp) == \E e \in c : e.fp = fp

\* a fingerprint that is present stamped anew on every sighting
IsReplay_Touch(c, window, sname, a, t) ==
    LET kept == ClearOldEntries(c, window, t)
        fp == Fingerprint(sname, a)
    IN  [replay |-> Present(kept, fp),
         cache |-> {e \in kept : e.fp # fp} \cup {[fp |-> fp, at |-> t]}]

\* One atomic check-and-record at time t: old entries are evicted; a fingerprint
\* that is present is a replay and changes nothing, one that is absent is recorded
IsReplay(c, window, sname, a, t) ==
    LET kept == ClearOldEntries(c, window, t)
        fp == Fingerprint(sname, a)
    IN  IF Present(kept, fp)
        THEN [replay |-> TRUE, cache |-> kept]
        ELSE [replay |-> FALSE, cache |-> kept \cup {[fp |-> fp, at |-> t]}]

-----------------------------------------------------------------------------
(* validateAPREQ, check by check *)

\* the name types compared, the names not
CNameEqual_TypeOnly(a, APReq) ==
    a.CName.NameType = APReq.Ticket.DecryptedEncPart.CName.NameType

\* line 93
CNameEqual(a, APReq) == PrincipalEqual(a.CName, APReq.Ticket.DecryptedEncPart.CName)

\* line 105: ct := a.CTime.Add(time.Duration(a.Cusec) * time.Microsecond)
AuthenticatorTime(a) == a.CTime + a.Cusec * Microsecond

\* only a late authenticator rejected, an early one not
SkewTooLarge_OneSided(t, ct) == t - ct > d

\* line 109
SkewTooLarge(t, ct) == t - ct > d \/ ct - t > d

\* the window with its unit forgotten: time.Duration(5)
ReplayWindow_NoUnit == 5 * Microsecond

\* lines 115-116: the window handed to the replay cache
ReplayWindow == d

\* line 122
NotYetValid(APReq, t) ==
    \/ APReq.Ticket.DecryptedEncPart.StartTime - t > d
    \/ IsFlagSet(APReq.Ticket.DecryptedEncPart.Flags, "invalid")

\* the end time compared without the tolerance d
TicketExpired_NoTolerance(APReq, t) == t - APReq.Ticket.DecryptedEncPart.EndTime > 0

\* line 128
TicketExpired(APReq, t) == t - APReq.Ticket.DecryptedEncPart.EndTime > d

-----------------------------------------------------------------------------
(* SPNEGOKRB5Authenticate, lines 29-76: the header and the token *)

\* the place of the first sep in s, 0 when there is none
IndexOf(s, sep) ==
    IF \E i \in 1..Len(s) : s[i] = sep
    THEN CHOOSE i \in 1..Len(s) : s[i] = sep /\ \A j \in 1..(i - 1) : s[j] # sep
    ELSE 0

RECURSIVE SplitN(_, _, _)
\* strings.SplitN(s, sep, n) for n > 0
SplitN(s, sep, n) ==
    LET i == IndexOf(s, sep)
    IN  IF n = 1 \/ i = 0 THEN <<s>>
        ELSE <<SubSeq(s, 1, i - 1)>> \o SplitN(SubSeq(s, i + 1, Len(s)), sep, n - 1)

\* the scheme not looked at
NotNegotiate_AnyScheme(s) == Len(s) # 2

\* line 30
NotNegotiate(s) == Len(s) # 2 \/ s[1] # <<"Negotiate">>

\* Lines 36-76 on the credential cred of a request with token tok: the log
\* message of the first check that rejects, "panic" when line 47 indexes an
\* empty MechTypes, "" when the token reaches validateAPREQ
DecodeToken(cred, tok) ==
    IF (\E i \in 1..Len(cred) : cred[i] = " ") \/ (cred # <<>> /\ tok.stage = "b64")
    THEN "SPNEGO error in base64 decoding negotiation header"
    ELSE IF cred = <<>> \/ tok.stage \in {"negtoken", "notinit"}
    THEN "SPNEGO negotiation token is not a NegTokenInit"
    ELSE IF tok.MechTypes = <<>>
    THEN "panic"
    ELSE IF tok.MechTypes[1] # MechTypeOID_Krb5
    THEN "SPNEGO OID of MechToken is not of type KRB5"
    ELSE IF tok.stage = "mechtoken"
    THEN "SPNEGO error unmarshaling MechToken"
    ELSE IF tok.stage = "notapreq"
    THEN "MechToken does not contain an AP_REQ - KRB_AP_ERR_MSG_TYPE"
    ELSE IF tok.stage = "tktdecrypt"
    THEN "SPNEGO error decrypting the service ticket provided"
    ELSE IF tok.stage = "authdecrypt"
    THEN "SPNEGO error decrypting the authenticator provided"
    ELSE IF tok.stage = "authunmarshal"
    THEN "SPNEGO error unmarshalling the authenticator"
    ELSE ""

-----------------------------------------------------------------------------
(* The inputs *)

\* the instants the clock passes through
\* Every comparison of two times is a strict one against d, so the clock is
\* sampled on the two sides of each boundary: at it and a microsecond after it
Offsets == {0, Microsecond}

ClockValues == {k * d + j : k \in 0..MaxWindows, j \in Offsets}

LastInstant == MaxWindows * d + Microsecond

Reqs == 1..MaxReq

GoodHeader == <<"Negotiate", " ", "TOKEN">>

\* absent, no second part, another scheme, another case, a leading space
ChallengeHeaders ==
    {<<>>, <<"Negotiate">>, <<"Basic", " ", "TOKEN">>, <<"negotiate", " ", "TOKEN">>,
     <<" ", "Negotiate", " ", "TOKEN">>}

\* an empty credential, a credential with a space in it
BadCredentialHeaders ==
    {<<"Negotiate", " ">>, <<"Negotiate", " ", "TOKEN", " ", "TOKEN">>}

CNames == {alice, bob}
Flags == {{}, {"invalid"}}

\* authenticators stamped 0 and d + 1 microsecond
Authenticators ==
    {Authenticator(c, "EXAMPLE.COM", ct[1], ct[2]) :
        c \in CNames, ct \in {<<0, 0>>, <<d, 1>>}}

\* alice's tickets: one that starts d + 1 microsecond after the clock does and
\* one that ends when the clock starts
APReqs ==
    {APReqOf(httpHost, "EXAMPLE.COM", alice, se[1], se[2], fl) :
        se \in {<<d + Microsecond, LastInstant>>, <<0, 0>>}, fl \in Flags}

BaseAuthenticator == Authenticator(alice, "EXAMPLE.COM", 0, 0)
BaseAPReq == APReqOf(httpHost, "EXAMPLE.COM", alice, 0, LastInstant, {})
BaseToken == Token("ok", <<MechTypeOID_Krb5>>, BaseAuthenticator, BaseAPReq)

\* tokens an external decode or decrypt step fails on, and tokens whose
\* mechanism list is empty or does not start with Kerberos
BadTokens ==
    {Token(st, <<MechTypeOID_Krb5>>, BaseAuthenticator, BaseAPReq) : st \in Stages \ {"ok"}}
    \cup {Token("ok", m, BaseAuthenticator, BaseAPReq) :
            m \in {<<>>, <<MechTypeOID_NTLM>>, <<MechTypeOID_NTLM, MechTypeOID_Krb5>>}}

\* tokens that reach validateAPREQ
GoodTokens ==
    {Token("ok", m, a, ap) :
        m \in {<<MechTypeOID_Krb5>>, <<MechTypeOID_Krb5, MechTypeOID_NTLM>>},
        a \in Authenticators, ap \in APReqs}

\* the requests of Spec: alice's, well formed, with a ticket that names her and
\* is not flagged invalid; they differ in the authenticator's time and in the
\* ticket's start and end
Requests ==
    {Request(GoodHeader, Token("ok", <<MechTypeOID_Krb5>>, a, ap)) :
        a \in {x \in Authenticators : x.CName = alice},
        ap \in {y \in APReqs : y.Ticket.DecryptedEncPart.Flags = {}}}

\* another service of the same host
otherHost == Principal(2, <<"HTTP", "other.example.com">>)

\* the requests of SpecFp: valid ones, of clients whose clock is d behind the
\* service's, each differing from the first in one component of the
\* fingerprint: the client, the client's realm, the service, the microseconds
\* of the authenticator time
FpRequests ==
    {Request(GoodHeader,
             Token("ok", <<MechTypeOID_Krb5>>, Authenticator(x[1], x[2], 0 - d, x[4]),
                   APReqOf(x[3], "EXAMPLE.COM", x[1], 0, LastInstant, {}))) :
        x \in {<<alice, "EXAMPLE.COM", httpHost, 0>>,
               <<bob, "EXAMPLE.COM", httpHost, 0>>,
               <<alice, "OTHER.ORG", httpHost, 0>>,
               <<alice, "EXAMPLE.COM", otherHost, 0>>,
               <<alice, "EXAMPLE.COM", httpHost, 1>>}}

\* the requests of SpecGate: every header and every token
GateRequests ==
    {Request(h, BaseToken) : h \in ChallengeHeaders \cup BadCredentialHeaders}
    \cup {Request(GoodHeader, tok) : tok \in BadTokens \cup GoodTokens}

-----------------------------------------------------------------------------
(* The state machine *)

NoRequest == Request(<<>>, BaseToken)

NoCheck == [called |-> FALSE, replay |-> FALSE, at |-> 0]

\* what a handler starts from, whether built with a logger or without
Start(l) ==
    /\ now = 0
    /\ cache = {}
    /\ logger = l
    /\ pc = [r \in Reqs |-> "idle"]
    /\ req = [r \in Reqs |-> NoRequest]
    /\ tread = [r \in Reqs |-> 0]
    /\ chk = [r \in Reqs |-> NoCheck]
    /\ out = [r \in Reqs |-> NoOutcome]

Init == Start(TRUE)

InitGate == \E l \in BOOLEAN : Start(l)

\* Lines 29-112 for request q: the header, the token, and validateAPREQ up to
\* the clock-skew check, which reads the clock
Receive(r, q) ==
    /\ pc[r] = "idle"
    /\ req' = [req EXCEPT ![r] = q]
    /\ tread' = [tread EXCEPT ![r] = now]
    /\ LET s == SplitN(q.Authorization, " ", 2)
           a == q.token.a
           APReq == q.token.APReq
           fail == IF NotNegotiate(s) THEN "" ELSE DecodeToken(s[2], q.token)
           o == IF NotNegotiate(s) THEN Challenge(NoOutcome)
                ELSE IF fail = "panic" THEN Panic(NoOutcome)
                ELSE IF fail # "" THEN rejectSPNEGO(NoOutcome, logger, fail)
                ELSE IF ~CNameEqual(a, APReq)
                THEN rejectSPNEGO(NoOutcome, logger, "KRB_AP_ERR_BADMATCH")
                ELSE IF SkewTooLarge(now, AuthenticatorTime(a))
                THEN rejectSPNEGO(NoOutcome, logger, "KRB_AP_ERR_SKEW")
                ELSE NoOutcome
       IN  /\ out' = [out EXCEPT ![r] = o]
           /\ pc' = [pc EXCEPT ![r] = IF o.path = "" THEN "replay" ELSE "done"]
    /\ UNCHANGED <<now, cache, logger, chk>>

\* the ticket's validity checked before the replay cache is asked
Validate_TicketFirst(r) ==
    /\ pc[r] = "replay"
    /\ LET a == req[r].token.a
           APReq == req[r].token.APReq
           t == tread[r]
           bad == NotYetValid(APReq, t) \/ TicketExpired(APReq, t)
           res == IF bad THEN [replay |-> FALSE, cache |-> cache]
                  ELSE IsReplay(cache, ReplayWindow, APReq.Ticket.SName, a, now)
       IN  /\ cache' = res.cache
           /\ chk' = [chk EXCEPT ![r] =
                        [called |-> ~bad, replay |-> res.replay, at |-> now]]
           /\ out' = [out EXCEPT ![r] =
                        IF NotYetValid(APReq, t)
                        THEN rejectSPNEGO(out[r], logger, "KRB_AP_ERR_TKT_NYV")
                        ELSE IF TicketExpired(APReq, t)
                        THEN rejectSPNEGO(out[r], logger, "KRB_AP_ERR_TKT_EXPIRED")
                        ELSE IF res.replay
                        THEN rejectSPNEGO(out[r], logger, "KRB_AP_ERR_REPEAT")
                        ELSE Accept(out[r], a)]
    /\ pc' = [pc EXCEPT ![r] = "done"]
    /\ UNCHANGED <<now, logger, req, tread>>

\* the ticket's client handed to the replay cache in the place of its service
Validate_ClientForService(r) ==
    /\ pc[r] = "replay"
    /\ LET a == req[r].token.a
           APReq == req[r].token.APReq
           t == tread[r]
           res == IsReplay(cache, ReplayWindow, APReq.Ticket.DecryptedEncPart.CName, a, now)
       IN  /\ cache' = res.cache
           /\ chk' = [chk EXCEPT ![r] =
                        [called |-> TRUE, replay |-> res.replay, at |-> now]]
           /\ out' = [out EXCEPT ![r] =
                        IF res.replay
                        THEN rejectSPNEGO(out[r], logger, "KRB_AP_ERR_REPEAT")
                        ELSE IF NotYetValid(APReq, t)
                        THEN rejectSPNEGO(out[r], logger, "KRB_AP_ERR_TKT_NYV")
                        ELSE IF TicketExpired(APReq, t)
                        THEN rejectSPNEGO(out[r], logger, "KRB_AP_ERR_TKT_EXPIRED")
                        ELSE Accept(out[r], a)]
    /\ pc' = [pc EXCEPT ![r] = "done"]
    /\ UNCHANGED <<now, logger, req, tread>>

\* the clock read again for the checks that follow the replay check
Validate_ClockReread(r) ==
    /\ pc[r] = "replay"
    /\ LET a == req[r].token.a
           APReq == req[r].token.APReq
           t == now
           res == IsReplay(cache, ReplayWindow, APReq.Ticket.SName, a, now)
       IN  /\ cache' = res.cache
           /\ chk' = [chk EXCEPT ![r] =
                        [called |-> TRUE, replay |-> res.replay, at |-> now]]
           /\ out' = [out EXCEPT ![r] =
                        IF res.replay
                        THEN rejectSPNEGO(out[r], logger, "KRB_AP_ERR_REPEAT")
                        ELSE IF NotYetValid(APReq, t)
                        THEN rejectSPNEGO(out[r], logger, "KRB_AP_ERR_TKT_NYV")
                        ELSE IF TicketExpired(APReq, t)
                        THEN rejectSPNEGO(out[r], logger, "KRB_AP_ERR_TKT_EXPIRED")
                        ELSE Accept(out[r], a)]
    /\ pc' = [pc EXCEPT ![r] = "done"]
    /\ UNCHANGED <<now, logger, req, tread>>

\* Lines 115-132 and 77-87: the replay check, one atomic call on the shared
\* cache at the clock's present value, then the ticket's validity at the t read
\* before, then accept or reject
Validate(r) ==
    /\ pc[r] = "replay"
    /\ LET a == req[r].token.a
           APReq == req[r].token.APReq
           t == tread[r]
           res == IsReplay(cache, ReplayWindow, APReq.Ticket.SName, a, now)
       IN  /\ cache' = res.cache
           /\ chk' = [chk EXCEPT ![r] =
                        [called |-> TRUE, replay |-> res.replay, at |-> now]]
           /\ out' = [out EXCEPT ![r] =
                        IF res.replay
                        THEN rejectSPNEGO(out[r], logger, "KRB_AP_ERR_REPEAT")
                        ELSE IF NotYetValid(APReq, t)
                        THEN rejectSPNEGO(out[r], logger, "KRB_AP_ERR_TKT_NYV")
                        ELSE IF TicketExpired(APReq, t)
                        THEN rejectSPNEGO(out[r], logger, "KRB_AP_ERR_TKT_EXPIRED")
                        ELSE Accept(out[r], a)]
    /\ pc' = [pc EXCEPT ![r] = "done"]
    /\ UNCHANGED <<now, logger, req, tread>>

\* The handler has returned and the goroutine takes the next request
Return(r) ==
    /\ pc[r] = "done"
    /\ pc' = [pc EXCEPT ![r] = "idle"]
    /\ req' = [req EXCEPT ![r] = NoRequest]
    /\ tread' = [tread EXCEPT ![r] = 0]
    /\ chk' = [chk EXCEPT ![r] = NoCheck]
    /\ out' = [out EXCEPT ![r] = NoOutcome]
    /\ UNCHANGED <<now, cache, logger>>

\* The wall clock moves on to its next instant
Tick ==
    /\ now < LastInstant
    /\ now' = CHOOSE t \in ClockValues : t > now /\ \A u \in ClockValues : u > now => t <= u
    /\ UNCHANGED <<cache, logger, pc, req, tread, chk, out>>

\* The cache's background pass
Sweep ==
    /\ cache' = ClearOldEntries(cache, ReplayWindow, now)
    /\ cache' # cache
    /\ UNCHANGED <<now, logger, pc, req, tread, chk, out>>

Next ==
    \/ \E r \in Reqs, q \in Requests : Receive(r, q)
    \/ \E r \in Reqs : Validate(r)
    \/ Tick
    \/ Sweep

Spec == Init /\ [][Next]_vars

\* One request at a time, of any shape
NextGate ==
    \/ \E q \in GateRequests : Receive(1, q)
    \/ Validate(1)
    \/ Return(1)
    \/ Tick
    \/ Sweep

SpecGate == InitGate /\ [][NextGate]_vars

\* Concurrent requests whose fingerprints differ in one component
NextFp ==
    \/ \E r \in Reqs, q \in FpRequests : Receive(r, q)
    \/ \E r \in Reqs : Validate(r)
    \/ Tick
    \/ Sweep

SpecFp == Init /\ [][NextFp]_vars

\* SpecGate with time that passes and a background pass that is not put off
\* for ever
SpecLive == InitGate /\ [][NextGate]_vars /\ WF_vars(Tick) /\ WF_vars(Sweep)

-----------------------------------------------------------------------------
(* Vocabulary of the properties *)

\* the authenticator time of request q, in microseconds
CTimeOf(q) == q.token.a.CTime + q.token.a.Cusec

\* q1 and q2 present the same client principal, client realm, service
\* principal and authenticator time
SameFingerprint(q1, q2) ==
    /\ q1.token.a.CName = q2.token.a.CName
    /\ q1.token.a.CRealm = q2.token.a.CRealm
    /\ q1.token.APReq.Ticket.SName = q2.token.APReq.Ticket.SName
    /\ CTimeOf(q1) = CTimeOf(q2)

\* cache entry e is the record of the fingerprint of q
EntryOf(e, q) ==
    /\ e.fp.cname = q.token.a.CName
    /\ e.fp.crealm = q.token.a.CRealm
    /\ e.fp.sname = q.token.APReq.Ticket.SName
    /\ e.fp.ct = CTimeOf(q)

\* the replay cache answered "fresh" to r, or "replay"
Fresh(r) == chk[r].called /\ ~chk[r].replay
Replayed(r) == chk[r].called /\ chk[r].replay

\* r1 and r2 overlap: each read the clock strictly before the other's replay check
Concurrent(r1, r2) == tread[r1] < chk[r2].at /\ tread[r2] < chk[r1].at

Dist(x, y) == IF x < y THEN y - x ELSE x - y

\* r is received in this step; r makes its replay check in this step
Arrives(r) == pc[r] = "idle" /\ pc'[r] # "idle"
Checks(r) == pc[r] = "replay" /\ pc'[r] = "done"

\* q has a Negotiate header and a token that every decode and decrypt step accepts
WellFormed(q) ==
    /\ q.Authorization = <<"Negotiate", " ", "TOKEN">>
    /\ q.token.stage = "ok"
    /\ Len(q.token.MechTypes) > 0
    /\ q.token.MechTypes[1] = "1.2.840.113554.1.2.2"

-----------------------------------------------------------------------------
(* C1 *)

\* C1 as stated: of two concurrent validations of one fingerprint that both
\* reach the replay check, never are both reported fresh.
C1_NeverBothFresh ==
    \A r1, r2 \in Reqs :
        r1 # r2 /\ SameFingerprint(req[r1], req[r2]) /\ Concurrent(r1, r2)
            => ~(Fresh(r1) /\ Fresh(r2))

\* C1, amended: of the validations of one fingerprint whose replay checks lie
\* within d of each other exactly one is reported fresh: two fresh answers are
\* more than d apart, and a replay answer follows a fresh one by at most d.
C1_OneFreshPerWindow ==
    \A r1 \in Reqs :
        /\ \A r2 \in Reqs :
            r1 # r2 /\ SameFingerprint(req[r1], req[r2]) /\ Fresh(r1) /\ Fresh(r2)
                => Dist(chk[r1].at, chk[r2].at) > 5 * Minute
        /\ Replayed(r1) =>
            \E r2 \in Reqs :
                /\ r2 # r1 /\ SameFingerprint(req[r1], req[r2]) /\ Fresh(r2)
                /\ chk[r2].at <= chk[r1].at /\ chk[r1].at - chk[r2].at <= 5 * Minute

\* two concurrent validations of one fingerprint, one fresh and one replay
C1_Witness ==
    \E r1, r2 \in Reqs :
        /\ r1 # r2 /\ SameFingerprint(req[r1], req[r2]) /\ Concurrent(r1, r2)
        /\ Fresh(r1) /\ Replayed(r2)

-----------------------------------------------------------------------------
(* C2 *)

\* q is valid at time t: the principals match, the authenticator time is within
\* d of t, the ticket has started and not ended (each with tolerance d) and is
\* not flagged invalid
ValidAt(q, t) ==
    /\ q.token.a.CName = q.token.APReq.Ticket.DecryptedEncPart.CName
    /\ Dist(t, CTimeOf(q)) <= 5 * Minute
    /\ q.token.APReq.Ticket.DecryptedEncPart.StartTime - t <= 5 * Minute
    /\ "invalid" \notin q.token.APReq.Ticket.DecryptedEncPart.Flags
    /\ t - q.token.APReq.Ticket.DecryptedEncPart.EndTime <= 5 * Minute

Accepted(r) == pc[r] = "done" /\ out[r].path = "Accepted"

\* C2 as stated: a valid context that the cache reports fresh is accepted, and a
\* second call with the same fingerprint, made after the first was recorded and
\* less than d after the first was made, is rejected as a replay.
C2_SecondIsReplay ==
    \A r1, r2 \in Reqs :
        /\ pc[r1] = "done" /\ Fresh(r1) /\ ValidAt(req[r1], tread[r1]) => Accepted(r1)
        /\ /\ r1 # r2 /\ Accepted(r1) /\ pc[r2] = "done"
           /\ SameFingerprint(req[r1], req[r2])
           /\ chk[r1].at <= tread[r2] /\ tread[r2] - tread[r1] < 5 * Minute
           => out[r2].path = "KRB_AP_ERR_REPEAT"

\* after an accepted call, a call with the same fingerprint whose replay check
\* comes within d of the first's is a replay, and one that does not come to the
\* replay check was rejected for its principals or for its clock skew
C2_Second ==
    \A r1, r2 \in Reqs :
        r1 # r2 /\ Accepted(r1) /\ pc[r2] = "done" /\ WellFormed(req[r2])
            /\ SameFingerprint(req[r1], req[r2])
        => /\ chk[r2].called /\ Dist(chk[r1].at, chk[r2].at) <= 5 * Minute
                => out[r2].path = "KRB_AP_ERR_REPEAT"
           /\ ~chk[r2].called
                => \/ /\ out[r2].path = "KRB_AP_ERR_BADMATCH"
                      /\ req[r2].token.a.CName
                            # req[r2].token.APReq.Ticket.DecryptedEncPart.CName
                   \/ /\ out[r2].path = "KRB_AP_ERR_SKEW"
                      /\ Dist(tread[r2], CTimeOf(req[r2])) > 5 * Minute

\* a context valid at the time its call read, and whose fingerprint the cache
\* does not hold when the replay check runs, is accepted
C2_First ==
    \A r \in Reqs :
        Checks(r) /\ ValidAt(req[r], tread[r]) /\ ~(\E e \in cache : EntryOf(e, req[r]))
            => out'[r].path = "Accepted"

\* C2, amended: a valid context whose fingerprint is not in the cache is
\* accepted; a second call with the same fingerprint is a replay when its replay
\* check comes within d of the first's, and is otherwise rejected before the
\* replay check, for its principals or for its clock skew.
C2_AcceptedThenReplay == [](C2_Second) /\ [][C2_First]_vars

\* an accepted call and a later replay of it
C2_Witness ==
    \E r1, r2 \in Reqs :
        /\ r1 # r2 /\ Accepted(r1) /\ SameFingerprint(req[r1], req[r2])
        /\ pc[r2] = "done" /\ out[r2].path = "KRB_AP_ERR_REPEAT"
        /\ chk[r2].at > chk[r1].at

-----------------------------------------------------------------------------
(* C5 *)

\* C5: an entry inserted at T stays while now < T + d; a check of its
\* fingerprint before T + d reports replay, and one after T + d reports fresh,
\* drops the entry and records the fingerprint anew.
C5_Window ==
    [][/\ \A e \in cache : now < e.at + 5 * Minute => e \in cache'
       /\ \A r \in Reqs : \A e \in cache :
            Checks(r) /\ EntryOf(e, req[r])
            => /\ now < e.at + 5 * Minute => chk'[r].replay
               /\ now > e.at + 5 * Minute
                    => /\ ~chk'[r].replay
                       /\ e \notin cache'
                       /\ \E e2 \in cache' : EntryOf(e2, req[r]) /\ e2.at = now]_vars

\* a fingerprint recorded, evicted after its window, and recorded anew
C5_Witness ==
    \E r1, r2 \in Reqs :
        /\ r1 # r2 /\ SameFingerprint(req[r1], req[r2]) /\ Fresh(r1) /\ Fresh(r2)
        /\ chk[r2].at > chk[r1].at + 5 * Minute
        /\ \E e \in cache : EntryOf(e, req[r2]) /\ e.at = chk[r2].at

-----------------------------------------------------------------------------
(* C3 *)

\* C3: a well-formed request whose authenticator names another client than its
\* ticket is rejected with BadMatch in the step that receives it, and that step
\* leaves the replay cache as it was and never calls it.
C3_BadMatchLeavesCache ==
    [][\A r \in Reqs :
        /\ Arrives(r) /\ WellFormed(req'[r])
        /\ req'[r].token.a.CName # req'[r].token.APReq.Ticket.DecryptedEncPart.CName
        => /\ pc'[r] = "done"
           /\ out'[r].path = "KRB_AP_ERR_BADMATCH"
           /\ ~chk'[r].called
           /\ cache' = cache]_vars

\* a BadMatch rejection while the cache holds entries
C3_Witness ==
    \E r \in Reqs :
        /\ pc[r] = "done" /\ out[r].path = "KRB_AP_ERR_BADMATCH"
        /\ req[r].token.a.CName # req[r].token.APReq.Ticket.DecryptedEncPart.CName
        /\ cache # {}

-----------------------------------------------------------------------------
(* C4 *)

\* C4: a well-formed, principal-matching request whose authenticator time is
\* more than d before or after now is rejected with ClockSkew in the step that
\* receives it, the cache untouched; one exactly d away is not.
C4_ClockSkew ==
    [][\A r \in Reqs :
        /\ Arrives(r) /\ WellFormed(req'[r])
        /\ req'[r].token.a.CName = req'[r].token.APReq.Ticket.DecryptedEncPart.CName
        => /\ (now - CTimeOf(req'[r]) > 5 * Minute \/ CTimeOf(req'[r]) - now > 5 * Minute)
                => /\ pc'[r] = "done"
                   /\ out'[r].path = "KRB_AP_ERR_SKEW"
                   /\ ~chk'[r].called
                   /\ cache' = cache
           /\ Dist(now, CTimeOf(req'[r])) = 5 * Minute
                => out'[r].path # "KRB_AP_ERR_SKEW" /\ pc'[r] = "replay"]_vars

\* a ClockSkew rejection, of an otherwise valid request, while the cache holds entries
C4_Witness ==
    \E r \in Reqs :
        /\ pc[r] = "done" /\ out[r].path = "KRB_AP_ERR_SKEW"
        /\ Dist(tread[r], CTimeOf(req[r])) > 5 * Minute
        /\ req[r].token.APReq.Ticket.DecryptedEncPart.StartTime - tread[r] <= 5 * Minute
        /\ tread[r] - req[r].token.APReq.Ticket.DecryptedEncPart.EndTime <= 5 * Minute
        /\ req[r].token.APReq.Ticket.DecryptedEncPart.Flags = {}
        /\ cache # {}

-----------------------------------------------------------------------------
(* C6 *)

\* what the client receives on a reject, and on a challenge
RejectArtifact ==
    [status |-> 401, header |-> "Negotiate oQcwBaADCgEC", body |-> "Unauthorised.\n"]
ChallengeArtifact ==
    [status |-> 401, header |-> "Negotiate", body |-> "Unauthorised.\n"]

\* the branches of the gate that end in rejectSPNEGO
RejectPaths ==
    {"SPNEGO error in base64 decoding negotiation header",
     "SPNEGO negotiation token is not a NegTokenInit",
     "SPNEGO OID of MechToken is not of type KRB5",
     "SPNEGO error unmarshaling MechToken",
     "MechToken does not contain an AP_REQ - KRB_AP_ERR_MSG_TYPE",
     "SPNEGO error decrypting the service ticket provided",
     "SPNEGO error decrypting the authenticator provided",
     "SPNEGO error unmarshalling the authenticator",
     "KRB_AP_ERR_BADMATCH", "KRB_AP_ERR_SKEW", "KRB_AP_ERR_REPEAT",
     "KRB_AP_ERR_TKT_NYV", "KRB_AP_ERR_TKT_EXPIRED"}

\* C6 as stated: every rejection, that of a missing credential too, sends 401,
\* the reject token and the body.
C6_AllRejectsAlike ==
    \A r \in Reqs :
        pc[r] = "done" /\ out[r].path \in RejectPaths \cup {"MissingCredential"}
            => Visible(out[r].w) = RejectArtifact

\* C6, amended: every rejection but that of a missing credential sends 401, the
\* reject token and the body, whatever its reason, which goes to the log alone
\* (when there is a logger); a missing credential gets the challenge, which
\* differs from a reject in its header.
C6_RejectsAlike ==
    \A r \in Reqs :
        /\ pc[r] = "done" /\ out[r].path \in RejectPaths
            => /\ Visible(out[r].w) = RejectArtifact
               /\ ~out[r].f.called
               /\ out[r].log = IF logger THEN <<out[r].path>> ELSE <<>>
        /\ pc[r] = "done" /\ out[r].path = "MissingCredential"
            => /\ Visible(out[r].w) = ChallengeArtifact
               /\ ~out[r].f.called
               /\ out[r].log = <<>>

\* a rejection by the last check of the pipeline, logged
C6_Witness ==
    \E r \in Reqs :
        /\ pc[r] = "done" /\ out[r].path = "KRB_AP_ERR_TKT_EXPIRED"
        /\ Visible(out[r].w) = RejectArtifact /\ out[r].log # <<>>

-----------------------------------------------------------------------------
(* C7 *)

\* validateAPREQ accepted r: every one of its checks passed
ValidatedOK(r) ==
    /\ WellFormed(req[r])
    /\ ValidAt(req[r], tread[r])
    /\ Fresh(r)

\* C7: the downstream handler is called for the accepted requests and for no
\* other, after the header has been set to the accept-completed token and with
\* the authenticator's client name and realm and authenticated = true.
C7_HandlerIffAccepted ==
    \A r \in Reqs :
        /\ pc[r] # "done" => ~out[r].f.called
        /\ pc[r] = "done" => (out[r].f.called <=> ValidatedOK(r))
        /\ out[r].path \in RejectPaths \cup {"MissingCredential"} => ~out[r].f.called
        /\ out[r].f.called
            => /\ out[r].f.hdr = "Negotiate oRQwEqADCgEAoQsGCSqGSIb3EgECAg=="
               /\ out[r].f.cname = Join(req[r].token.a.CName.NameString, "/")
               /\ out[r].f.crealm = req[r].token.a.CRealm
               /\ out[r].f.authenticated = TRUE
               /\ out[r].w.status = 0

\* the handler called for alice
C7_Witness ==
    \E r \in Reqs :
        /\ pc[r] = "done" /\ out[r].f.called /\ out[r].f.cname = "alice"
        /\ out[r].f.crealm = "EXAMPLE.COM"

-----------------------------------------------------------------------------
(* C8 *)

\* the credential of a Negotiate header h: what follows its first space
HasNegotiate(h) == Len(h) >= 2 /\ h[1] = "Negotiate" /\ h[2] = " "
Credential(h) == SubSeq(h, 3, Len(h))

\* the credential of q is malformed
Malformed(q) ==
    \/ Credential(q.Authorization) # <<"TOKEN">>
    \/ q.token.stage # "ok"
    \/ q.token.MechTypes = <<>>
    \/ q.token.MechTypes[1] # "1.2.840.113554.1.2.2"

\* C8: every request with a Negotiate header and a malformed credential ends
\* with the reject artifact written.
C8_MalformedRejected ==
    \A r \in Reqs :
        pc[r] = "done" /\ HasNegotiate(req[r].Authorization) /\ Malformed(req[r])
            => Visible(out[r].w) = RejectArtifact

-----------------------------------------------------------------------------
(* C9 *)

\* h is absent, has no second part, or has another scheme than Negotiate
NoNegotiateCredential(h) ==
    \/ h = <<>>
    \/ ~(\E i \in 1..Len(h) : h[i] = " ")
    \/ \E i \in 1..Len(h) :
        /\ h[i] = " " /\ \A j \in 1..(i - 1) : h[j] # " "
        /\ SubSeq(h, 1, i - 1) # <<"Negotiate">>

\* C9: a request without a Negotiate credential gets the challenge in the step
\* that receives it; the cache is not touched and the handler is not called.
C9_Challenge ==
    [][\A r \in Reqs :
        Arrives(r) /\ NoNegotiateCredential(req'[r].Authorization)
        => /\ pc'[r] = "done"
           /\ Visible(out'[r].w) = ChallengeArtifact
           /\ ~out'[r].f.called
           /\ ~chk'[r].called
           /\ cache' = cache]_vars

\* a challenge sent for another scheme while the cache holds entries
C9_Witness ==
    \E r \in Reqs :
        /\ pc[r] = "done" /\ req[r].Authorization = <<"Basic", " ", "TOKEN">>
        /\ Visible(out[r].w) = ChallengeArtifact
        /\ cache # {}

-----------------------------------------------------------------------------
(* C10 *)

\* what a presentation of fingerprint g at time t is told by cache c
SeenAsReplay(c, g, t) == \E e \in c : e.fp = g /\ e.at >= t - 5 * Minute

\* the fingerprints presented
Fingerprints ==
    {[cname |-> q.token.a.CName, crealm |-> q.token.a.CRealm,
      sname |-> q.token.APReq.Ticket.SName, ct |-> CTimeOf(q)] : q \in GateRequests}

\* C10: a step of a request that ends rejected leaves, for every other
\* fingerprint and every later time, the answer of the cache as it was.
C10_RejectKeepsOthers ==
    [][\A r \in Reqs :
        /\ pc[r] # "done" /\ pc'[r] = "done"
        /\ out'[r].path \in {"KRB_AP_ERR_BADMATCH", "KRB_AP_ERR_SKEW", "KRB_AP_ERR_REPEAT",
                             "KRB_AP_ERR_TKT_NYV", "KRB_AP_ERR_TKT_EXPIRED"}
        => \A g \in Fingerprints : \A t \in ClockValues :
            ~EntryOf([fp |-> g, at |-> 0], req'[r]) /\ t >= now
                => (SeenAsReplay(cache', g, t) <=> SeenAsReplay(cache, g, t))]_vars

\* a request recorded and then rejected while the cache holds another fingerprint
C10_Witness ==
    \E r \in Reqs :
        /\ pc[r] = "done"
        /\ out[r].path \in {"KRB_AP_ERR_TKT_NYV", "KRB_AP_ERR_TKT_EXPIRED"}
        /\ \E e \in cache : ~EntryOf(e, req[r])
        /\ \E e \in cache : EntryOf(e, req[r])

-----------------------------------------------------------------------------
(* C11 *)

\* the first of the five checks that context q fails at time t, inCache telling
\* whether the cache holds its fingerprint, and "Accepted" when it fails none
FirstFailure(q, t, inCache) ==
    IF q.token.a.CName # q.token.APReq.Ticket.DecryptedEncPart.CName
    THEN "KRB_AP_ERR_BADMATCH"
    ELSE IF Dist(t, CTimeOf(q)) > 5 * Minute
    THEN "KRB_AP_ERR_SKEW"
    ELSE IF inCache
    THEN "KRB_AP_ERR_REPEAT"
    ELSE IF \/ q.token.APReq.Ticket.DecryptedEncPart.StartTime - t > 5 * Minute
            \/ "invalid" \in q.token.APReq.Ticket.DecryptedEncPart.Flags
    THEN "KRB_AP_ERR_TKT_NYV"
    ELSE IF t - q.token.APReq.Ticket.DecryptedEncPart.EndTime > 5 * Minute
    THEN "KRB_AP_ERR_TKT_EXPIRED"
    ELSE "Accepted"

\* C11: the result of a well-formed request is Accepted iff it passes principal
\* match, clock skew, replay, not-yet-valid and expired, and is otherwise the
\* reason of the first of these, in this order, that it fails; a request goes
\* on to the replay check only when it has passed the first two.
C11_CheckOrder ==
    [][\A r \in Reqs :
        /\ pc[r] # "done" /\ pc'[r] = "done" /\ WellFormed(req'[r])
            => out'[r].path =
                FirstFailure(req'[r], tread'[r],
                             \E e \in cache : EntryOf(e, req'[r]) /\ e.at >= now - 5 * Minute)
        /\ Arrives(r) /\ pc'[r] = "replay"
            => FirstFailure(req'[r], tread'[r], FALSE)
                    \notin {"KRB_AP_ERR_BADMATCH", "KRB_AP_ERR_SKEW"}]_vars

\* a request that is replayed and expired, rejected as a replay
C11_Witness ==
    \E r \in Reqs :
        /\ pc[r] = "done" /\ out[r].path = "KRB_AP_ERR_REPEAT"
        /\ tread[r] - req[r].token.APReq.Ticket.DecryptedEncPart.EndTime > 5 * Minute

-----------------------------------------------------------------------------
(* C12 *)

\* C12: of two presentations of one authenticator, the second one made after the
\* first was accepted and validated without the clock moving in between its
\* checks, never are both accepted, however far the clock has moved on between
\* the two.
C12_NeverAcceptedTwice ==
    \A r1, r2 \in Reqs :
        /\ r1 # r2 /\ req[r1] = req[r2]
        /\ Accepted(r1) /\ chk[r1].at < tread[r2] /\ pc[r2] = "done"
        /\ chk[r2].called => chk[r2].at = tread[r2]
        => ~Accepted(r2)

-----------------------------------------------------------------------------
(* C13 *)

\* r was rejected by one of the two checks that follow the replay check
TicketRejected(r) ==
    pc[r] = "done" /\ out[r].path \in {"KRB_AP_ERR_TKT_NYV", "KRB_AP_ERR_TKT_EXPIRED"}

-----------------------------------------------------------------------------
(* C14 *)

\* C14: a replay check that answers "replay" records nothing and alters no
\* entry: the entry of the fingerprint stays as it was stored, with its
\* insertion time, and the only entries that leave the cache in that call are
\* those older than the window.
C14_ReplayKeepsEntry ==
    [][\A r \in Reqs :
        Checks(r) /\ chk'[r].replay
        => /\ cache' \subseteq cache
           /\ \A e \in cache : e.at >= now - 5 * Minute => e \in cache'
           /\ \E e \in cache : EntryOf(e, req[r]) /\ e \in cache'
           /\ Cardinality({e \in cache' : EntryOf(e, req[r])}) = 1]_vars

\* a fingerprint replayed after the instant it was recorded at, its entry still
\* bearing the time of the first sighting
C14_Witness ==
    \E r \in Reqs :
        /\ pc[r] = "done" /\ out[r].path = "KRB_AP_ERR_REPEAT"
        /\ \E e \in cache : EntryOf(e, req[r]) /\ e.at < chk[r].at

-----------------------------------------------------------------------------
(* C15 *)

\* C15: a presentation is reported a replay only after a presentation of the
\* very same fingerprint was reported fresh; one whose fingerprint differs, in
\* any one component, from those of all the other presentations is reported
\* fresh, whatever the order and the interleaving of the replay checks.
C15_DistinctIndependent ==
    \A r1 \in Reqs :
        /\ Replayed(r1)
            => \E r2 \in Reqs :
                /\ r2 # r1 /\ SameFingerprint(req[r1], req[r2])
                /\ Fresh(r2) /\ chk[r2].at <= chk[r1].at
        /\ chk[r1].called
            /\ (\A r2 \in Reqs \ {r1} :
                    pc[r2] # "idle" => ~SameFingerprint(req[r1], req[r2]))
            => Fresh(r1)

\* two overlapping validations with the same CTime and another Cusec, both fresh
C15_Witness ==
    \E r1, r2 \in Reqs :
        /\ r1 # r2 /\ Concurrent(r1, r2) /\ Fresh(r1) /\ Fresh(r2)
        /\ req[r1].token.a.CTime = req[r2].token.a.CTime
        /\ req[r1].token.a.Cusec # req[r2].token.a.Cusec
        /\ req[r1].token.a.CName = req[r2].token.a.CName
        /\ req[r1].token.a.CRealm = req[r2].token.a.CRealm
        /\ req[r1].token.APReq.Ticket.SName = req[r2].token.APReq.Ticket.SName

-----------------------------------------------------------------------------
(* C16 *)

\* C16: the clock-skew, not-yet-valid and expired checks of one call all use
\* the one value of the clock the call read: a request that came to the replay
\* check was within d of that value, and one reported fresh is rejected or
\* accepted by what its ticket is at that value, wherever the clock stands
\* when the replay check returns.
C16_ClockReadOnce ==
    \A r \in Reqs :
        /\ chk[r].called => Dist(tread[r], CTimeOf(req[r])) <= 5 * Minute
        /\ pc[r] = "done" /\ Fresh(r)
            => out[r].path =
                IF \/ req[r].token.APReq.Ticket.DecryptedEncPart.StartTime - tread[r]
                        > 5 * Minute
                   \/ "invalid" \in req[r].token.APReq.Ticket.DecryptedEncPart.Flags
                THEN "KRB_AP_ERR_TKT_NYV"
                ELSE IF tread[r] - req[r].token.APReq.Ticket.DecryptedEncPart.EndTime
                            > 5 * Minute
                THEN "KRB_AP_ERR_TKT_EXPIRED"
                ELSE "Accepted"

\* a request accepted although, by the time its replay check ran, the clock
\* had passed the end of its ticket by more than d
C16_Witness ==
    \E r \in Reqs :
        /\ Accepted(r)
        /\ tread[r] < chk[r].at
        /\ chk[r].at - req[r].token.APReq.Ticket.DecryptedEncPart.EndTime > 5 * Minute

-----------------------------------------------------------------------------
(* C17 *)

\* the entries whose window ends before the clock of the model does
LiveEntries ==
    {[fp |-> g, at |-> t] :
        g \in Fingerprints, t \in {u \in ClockValues : u + 5 * Minute < LastInstant}}

\* C17: with time passing and the background pass running, every entry
\* inserted at T is in the end removed, and that after T + d.
C17_EventuallyEvicted ==
    \A e \in LiveEntries :
        (e \in cache) ~> (e \notin cache /\ now > e.at + 5 * Minute)

\* a fingerprint was recorded and its entry is gone, the window over
C17_Witness ==
    \E r \in Reqs :
        /\ pc[r] = "done" /\ Fresh(r) /\ now > chk[r].at + 5 * Minute
        /\ ~(\E e \in cache : EntryOf(e, req[r]))

-----------------------------------------------------------------------------
(* C18 *)

\* the outcomes that o, what the gate did for a request, amounts to
Outcomes(o) ==
    {k \in {"challenge", "reject", "accept"} :
        \/ k = "challenge" /\ Visible(o.w) = ChallengeArtifact /\ ~o.f.called
        \/ k = "reject" /\ Visible(o.w) = RejectArtifact /\ ~o.f.called
        \/ /\ k = "accept" /\ o.f.called
           /\ o.f.hdr = "Negotiate oRQwEqADCgEAoQsGCSqGSIb3EgECAg=="
           /\ o.w.status # 401 /\ o.w.sent # "Negotiate oQcwBaADCgEC"}

\* C18: every request the gate has handled ended in exactly one of challenge,
\* reject artifact and downstream invocation with the accept-completed header;
\* a request that is not yet through has had nothing written.
C18_ExactlyOneOutcome ==
    \A r \in Reqs :
        /\ pc[r] = "done" => Cardinality(Outcomes(out[r])) = 1
        /\ pc[r] # "done" => Outcomes(out[r]) = {} /\ out[r].w = NewResponse

-----------------------------------------------------------------------------
(* C19 *)

\* the credential of q gets as far as line 47 and has no mechanism to look at
NoMechanism(q) ==
    /\ Credential(q.Authorization) = <<"TOKEN">>
    /\ q.token.stage \notin {"b64", "negtoken", "notinit"}
    /\ q.token.MechTypes = <<>>

\* What request q is answered with when its call read the clock at t and the
\* cache told it replay, or did not: a function of these alone
Answer(q, t, replay) ==
    IF NoNegotiateCredential(q.Authorization) THEN "challenge"
    ELSE IF NoMechanism(q) THEN "none"
    ELSE IF Malformed(q) THEN "reject"
    ELSE IF FirstFailure(q, t, replay) = "Accepted" THEN "accept"
    ELSE "reject"

\* the response, the handler and the log of every finished request, the log
\* alone depending on the logger
C19_Response ==
    \A r \in Reqs :
        pc[r] = "done"
        => LET x == Answer(req[r], tread[r], Replayed(r))
           IN  /\ Visible(out[r].w) =
                    IF x = "challenge" THEN ChallengeArtifact
                    ELSE IF x = "reject" THEN RejectArtifact
                    ELSE [status |-> 0, header |-> "", body |-> ""]
               /\ out[r].f.called <=> x = "accept"
               /\ logger => (out[r].log # <<>> <=> x = "reject")
               /\ ~logger => out[r].log = <<>>

\* the cache after every step, the logger having no part in it: a replay check
\* evicts the old entries and records the fingerprint when it is not there, and
\* no other step of a request touches the cache
C19_Cache ==
    \A r \in Reqs :
        /\ Arrives(r) => cache' = cache
        /\ Checks(r)
            => LET kept == {e \in cache : e.at >= now - 5 * Minute}
               IN  cache' =
                    IF \E e \in kept : EntryOf(e, req[r]) THEN kept
                    ELSE kept \cup {[fp |-> [cname |-> req[r].token.a.CName,
                                             crealm |-> req[r].token.a.CRealm,
                                             sname |-> req[r].token.APReq.Ticket.SName,
                                             ct |-> CTimeOf(req[r])],
                                     at |-> now]}

\* C19: whether the handler was built with a logger or without, the response
\* the client receives, the update of the replay cache and the call of the
\* downstream handler are the same function of the request, the clock and the
\* cache; the logger decides only whether a rejection is logged.
C19_LoggerOnlyLogs == [](C19_Response) /\ [][C19_Cache]_vars

\* without a logger: a request recorded in the cache and then rejected, the
\* reject artifact sent and nothing logged
C19_Witness ==
    \E r \in Reqs :
        /\ ~logger /\ pc[r] = "done" /\ out[r].path = "KRB_AP_ERR_TKT_EXPIRED"
        /\ Visible(out[r].w) = RejectArtifact /\ out[r].log = <<>>
        /\ \E e \in cache : EntryOf(e, req[r])

====
